---- MODULE Spec2Model ----
(***************************************************************************)
(* Model of react-client-seo: the document head as a sequence of elements, *)
(* the helpers of utils.ts as operators over a document, and the two call  *)
(* sites (the Seo component's effect and the useSeo accessors) as actions. *)
(*                                                                         *)
(* Text values (contents, hrefs, titles) are sequences of one-character    *)
(* strings, so that joining and serialising are computed and not assumed.  *)
(* Selector keys (tag names, property names, ids) are TLA+ strings.        *)
(* Override records (openGraph, twitter) and JSON-LD objects keep their    *)
(* insertion order: they are sequences of [k, v] pairs with distinct keys. *)
(* Input values of override records are strings only (no numbers).         *)
(*                                                                         *)
(* An operator that uses a document, a head or an object more than once    *)
(* first binds it to a value (CHOOSE r \in {e(x) : x \in {arg}} : TRUE is   *)
(* "let x be the value of arg in e(x)"), so that a chain of calls is       *)
(* evaluated once per link.                                                *)
(***************************************************************************)
EXTENDS Integers, Sequences, FiniteSets, TLC

VARIABLES docTitle, head, comps, last, steps

vars == <<docTitle, head, comps, last, steps>>

(***************************************************************************)
(* Bounds                                                                  *)
(***************************************************************************)
\* number of calls the callers make (updateSeo, clearSeo, effect runs)
MaxSteps == 2

(***************************************************************************)
(* Program constants                                                       *)
(***************************************************************************)
JSON_LD_ID == "react-client-seo-jsonld"

LdJsonType == "application/ld+json"

(***************************************************************************)
(* Text                                                                    *)
(***************************************************************************)
Empty == <<>>

RECURSIVE JoinFrom(_, _, _)
\* the elements of arr from index i on, separated by sep
JoinFrom(arr, sep, i) ==
  IF i > Len(arr) THEN Empty
  ELSE IF i = Len(arr) THEN arr[i]
  ELSE arr[i] \o sep \o JoinFrom(arr, sep, i + 1)

\* Array.prototype.join: the elements separated by sep, in order.
Join(arr, sep) == JoinFrom(arr, sep, 1)

KeywordSeparator == <<",", " ">>

\* keywords is a tagged variant: [kind |-> "string", val |-> text] or
\* [kind |-> "array", val |-> sequence of texts]; absent is modelled by the
\* field missing from the props record.
formatKeywordsWrong(props) ==
  IF "keywords" \notin DOMAIN props THEN Empty
  ELSE IF props.keywords.kind = "array" THEN Join(props.keywords.val, <<",">>)
  ELSE props.keywords.val

formatKeywords(props) ==
  IF "keywords" \notin DOMAIN props THEN Empty
  ELSE IF props.keywords.kind = "string"
       THEN props.keywords.val          \* '' is falsy and returns '' too
       ELSE Join(props.keywords.val, KeywordSeparator)

(***************************************************************************)
(* Ordered objects: sequences of [k, v] pairs with distinct keys.          *)
(***************************************************************************)
ObjKeys(o) == {o[i].k : i \in 1..Len(o)}

ObjHas(o, key) == key \in ObjKeys(o)

ObjGet(o, key) == o[CHOOSE i \in 1..Len(o) : o[i].k = key].v

\* obj[key] = value: an existing key keeps its position, a new key is appended.
ObjSet(obj, key, value) ==
  CHOOSE r \in
    { IF ObjHas(o, key)
      THEN [i \in 1..Len(o) |-> IF o[i].k = key THEN [k |-> key, v |-> value] ELSE o[i]]
      ELSE Append(o, [k |-> key, v |-> value]) : o \in {obj} } : TRUE

\* if (obj.key): defined and not the empty string
ObjTruthy(o, key) == ObjHas(o, key) /\ ObjGet(o, key) # Empty

\* if (field) on a destructured prop
Truthy(props, f) == f \in DOMAIN props /\ props[f] # Empty

(***************************************************************************)
(* JSON.stringify of a JSON-LD payload.  A payload is                      *)
(* [kind |-> "object", val |-> pairs] or [kind |-> "array", val |-> seq of *)
(* pair sequences]; keys and values are texts without characters that need *)
(* escaping.                                                               *)
(***************************************************************************)
Quote(s) == <<"\"">> \o s \o <<"\"">>

StringifyObject(o) ==
  <<"{">> \o Join([i \in 1..Len(o) |-> Quote(o[i].k) \o <<":">> \o Quote(o[i].v)], <<",">>) \o <<"}">>

Stringify(data) ==
  IF data.kind = "object" THEN StringifyObject(data.val)
  ELSE <<"[">> \o Join([i \in 1..Len(data.val) |-> StringifyObject(data.val[i])], <<",">>) \o <<"]">>

(***************************************************************************)
(* The document: doc = [title |-> text, head |-> sequence of elements].    *)
(* An element is [tag, attr, key, content, type, uid]:                     *)
(*   meta   attr in {"name","property","http-equiv"}: key is the attribute *)
(*          value, content the content attribute;                          *)
(*   meta   attr = "charset": content is the charset value, key is "";     *)
(*   link   attr = "rel", key = "canonical", content is the href;          *)
(*   script attr = "id", key the id, content the text, type the type,      *)
(*          uid the identity of the element object (0 for the others,      *)
(*          whose identity no closure keeps).                              *)
(***************************************************************************)
Meta(attr, key, content) ==
  [tag |-> "meta", attr |-> attr, key |-> key, content |-> content, type |-> "", uid |-> 0]

Link(href) ==
  [tag |-> "link", attr |-> "rel", key |-> "canonical", content |-> href, type |-> "", uid |-> 0]

Script(id, type, text, uid) ==
  [tag |-> "script", attr |-> "id", key |-> id, content |-> text, type |-> type, uid |-> uid]

\* document.querySelector: index of the first match in document order, 0 if none
First(h, Match(_)) ==
  IF \E i \in 1..Len(h) : Match(h[i])
  THEN CHOOSE i \in 1..Len(h) : Match(h[i]) /\ \A j \in 1..(i-1) : ~Match(h[j])
  ELSE 0

RemoveAt(h, i) == [j \in 1..(Len(h)-1) |-> IF j < i THEN h[j] ELSE h[j+1]]

SetContentAt(h, i, content) == [h EXCEPT ![i].content = content]

IsMeta(e, attr, key) == e.tag = "meta" /\ e.attr = attr /\ e.key = key

IsCharset(e) == e.tag = "meta" /\ e.attr = "charset"

IsCanonical(e) == e.tag = "link" /\ e.attr = "rel" /\ e.key = "canonical"

HasId(e, id) == e.attr = "id" /\ e.key = id

\* getOrCreateMetaTag followed by element.setAttribute('content', content):
\* every caller sets the content of the element it gets.
getOrCreateMetaTagWrong(h, attribute, value, content) ==
  Append(h, Meta(attribute, value, content))

getOrCreateMetaTag(head0, attribute, value, content) ==
  CHOOSE r \in
    { LET IsIt(e) == IsMeta(e, attribute, value)
      IN IF First(h, IsIt) = 0 THEN Append(h, Meta(attribute, value, content))
         ELSE SetContentAt(h, First(h, IsIt), content) : h \in {head0} } : TRUE

setMetaTag(doc, name, content) ==
  IF content = Empty THEN doc
  ELSE [doc EXCEPT !.head = getOrCreateMetaTag(@, "name", name, content)]

setMetaProperty(doc, property, content) ==
  IF content = Empty THEN doc
  ELSE [doc EXCEPT !.head = getOrCreateMetaTag(@, "property", property, content)]

setTitle(doc, title) ==
  IF title = Empty THEN doc ELSE [doc EXCEPT !.title = title]

\* lines 53-59 on the head
UpsertCanonical(head0, url) ==
  CHOOSE r \in
    { IF First(h, IsCanonical) = 0 THEN Append(h, Link(url))
      ELSE SetContentAt(h, First(h, IsCanonical), url) : h \in {head0} } : TRUE

setCanonical(doc, url) ==
  IF url = Empty THEN doc
  ELSE [doc EXCEPT !.head = UpsertCanonical(@, url)]

\* element.remove() of the first element a selector finds, if any
RemoveFirst(head0, Match(_)) ==
  CHOOSE r \in
    { IF First(h, Match) = 0 THEN h ELSE RemoveAt(h, First(h, Match)) : h \in {head0} } : TRUE

\* as removeCanonical, but removes every canonical link
removeCanonicalAll(doc) ==
  [doc EXCEPT !.head = SelectSeq(@, LAMBDA e : ~IsCanonical(e))]

removeCanonical(doc) == [doc EXCEPT !.head = RemoveFirst(@, IsCanonical)]

(***************************************************************************)
(* Open Graph and Twitter Card tags (utils.ts)                             *)
(***************************************************************************)
\* the well-known keys in the order the source tests them, with their tags
OgWellKnown ==
  << [k |-> "title",       tag |-> "og:title"],
     [k |-> "description", tag |-> "og:description"],
     [k |-> "type",        tag |-> "og:type"],
     [k |-> "url",         tag |-> "og:url"],
     [k |-> "image",       tag |-> "og:image"],
     [k |-> "imageWidth",  tag |-> "og:image:width"],
     [k |-> "imageHeight", tag |-> "og:image:height"],
     [k |-> "imageAlt",    tag |-> "og:image:alt"],
     [k |-> "siteName",    tag |-> "og:site_name"],
     [k |-> "locale",      tag |-> "og:locale"] >>

\* keys the forEach of setOpenGraphTags refuses although they start with og:
OgLoopExcluded ==
  {"og:title", "og:description", "og:type", "og:url", "og:image",
   "og:imageWidth", "og:imageHeight", "og:imageAlt", "og:siteName", "og:locale"}

\* key.startsWith('og:') over the key names the inputs use
StartsWithOg(key) ==
  key \in {"og:title", "og:url", "og:site_name", "og:article:author"}

TwitterWellKnown ==
  << [k |-> "card",        tag |-> "twitter:card"],
     [k |-> "site",        tag |-> "twitter:site"],
     [k |-> "creator",     tag |-> "twitter:creator"],
     [k |-> "title",       tag |-> "twitter:title"],
     [k |-> "description", tag |-> "twitter:description"],
     [k |-> "image",       tag |-> "twitter:image"],
     [k |-> "imageAlt",    tag |-> "twitter:image:alt"] >>

TwitterLoopExcluded ==
  {"twitter:card", "twitter:site", "twitter:creator", "twitter:title",
   "twitter:description", "twitter:image", "twitter:imageAlt"}

\* key.startsWith('twitter:') over the key names the inputs use
StartsWithTwitter(key) ==
  key \in {"twitter:title", "twitter:image:alt", "twitter:label1"}

RECURSIVE OgKnown(_, _, _)
\* lines 79-88: if (og.key) setMetaProperty(tag, og.key), from entry i on
OgKnown(doc, og, i) ==
  IF i > Len(OgWellKnown) THEN doc
  ELSE LET w == OgWellKnown[i]
       IN OgKnown(IF ObjTruthy(og, w.k) THEN setMetaProperty(doc, w.tag, ObjGet(og, w.k)) ELSE doc,
                  og, i + 1)

RECURSIVE OgExtra(_, _, _)
\* lines 91-101: Object.keys(og).forEach, from key i on
OgExtra(doc, og, i) ==
  IF i > Len(og) THEN doc
  ELSE LET key == og[i].k
       IN OgExtra(IF StartsWithOg(key) /\ key \notin OgLoopExcluded /\ og[i].v # Empty
                  THEN setMetaProperty(doc, key, og[i].v) ELSE doc,
                  og, i + 1)

setOpenGraphTags(doc, og) == OgExtra(OgKnown(doc, og, 1), og, 1)

RECURSIVE TwitterKnown(_, _, _)
\* lines 110-116
TwitterKnown(doc, twitter, i) ==
  IF i > Len(TwitterWellKnown) THEN doc
  ELSE LET w == TwitterWellKnown[i]
       IN TwitterKnown(IF ObjTruthy(twitter, w.k) THEN setMetaTag(doc, w.tag, ObjGet(twitter, w.k)) ELSE doc,
                       twitter, i + 1)

RECURSIVE TwitterExtra(_, _, _)
\* lines 119-129
TwitterExtra(doc, twitter, i) ==
  IF i > Len(twitter) THEN doc
  ELSE LET key == twitter[i].k
       IN TwitterExtra(IF StartsWithTwitter(key) /\ key \notin TwitterLoopExcluded /\ twitter[i].v # Empty
                       THEN setMetaTag(doc, key, twitter[i].v) ELSE doc,
                       twitter, i + 1)

setTwitterCardTags(doc, twitter) == TwitterExtra(TwitterKnown(doc, twitter, 1), twitter, 1)

(***************************************************************************)
(* Custom meta tags.  An entry is a record with any of the fields name,    *)
(* property, httpEquiv (key strings), charset and content (texts).         *)
(***************************************************************************)
KeyTruthy(m, f) == f \in DOMAIN m /\ m[f] # ""

TextTruthy(m, f) == f \in DOMAIN m /\ m[f] # Empty

\* lines 147-154 on the head
UpsertHttpEquiv(head0, httpEquiv, content) ==
  CHOOSE r \in
    { LET IsIt(e) == IsMeta(e, "http-equiv", httpEquiv)
      IN IF First(h, IsIt) = 0 THEN Append(h, Meta("http-equiv", httpEquiv, content))
         ELSE SetContentAt(h, First(h, IsIt), content) : h \in {head0} } : TRUE

\* as InsertCharset, but without the test for an existing charset meta
InsertCharsetAlways(head0, charset) ==
  <<Meta("charset", "", charset)>> \o head0

\* lines 155-162 on the head
InsertCharset(head0, charset) ==
  CHOOSE r \in
    { IF First(h, IsCharset) = 0 THEN <<Meta("charset", "", charset)>> \o h
      ELSE h : h \in {head0} } : TRUE

\* as CustomEntry, but property is tried before name
CustomEntryPropertyFirst(doc, m) ==
  IF ~TextTruthy(m, "content") THEN doc
  ELSE IF KeyTruthy(m, "property")
       THEN [doc EXCEPT !.head = getOrCreateMetaTag(@, "property", m.property, m.content)]
  ELSE IF KeyTruthy(m, "name")
       THEN [doc EXCEPT !.head = getOrCreateMetaTag(@, "name", m.name, m.content)]
  ELSE IF KeyTruthy(m, "httpEquiv")
       THEN [doc EXCEPT !.head = UpsertHttpEquiv(@, m.httpEquiv, m.content)]
  ELSE IF TextTruthy(m, "charset")
       THEN [doc EXCEPT !.head = InsertCharset(@, m.charset)]
  ELSE doc

\* utils.ts lines 138-168: the forEach callback applied to one entry
CustomEntry(doc, m) ==
  IF ~TextTruthy(m, "content") THEN doc
  ELSE IF KeyTruthy(m, "name")
       THEN [doc EXCEPT !.head = getOrCreateMetaTag(@, "name", m.name, m.content)]
  ELSE IF KeyTruthy(m, "property")
       THEN [doc EXCEPT !.head = getOrCreateMetaTag(@, "property", m.property, m.content)]
  ELSE IF KeyTruthy(m, "httpEquiv")
       THEN [doc EXCEPT !.head = UpsertHttpEquiv(@, m.httpEquiv, m.content)]
  ELSE IF TextTruthy(m, "charset")
       THEN [doc EXCEPT !.head = InsertCharset(@, m.charset)]
  ELSE doc

RECURSIVE CustomFrom(_, _, _)
\* customMeta.forEach, from entry i on
CustomFrom(doc, customMeta, i) ==
  IF i > Len(customMeta) THEN doc
  ELSE CustomFrom(CustomEntry(doc, customMeta[i]), customMeta, i + 1)

setCustomMetaTags(doc, customMeta) == CustomFrom(doc, customMeta, 1)

(***************************************************************************)
(* JSON-LD                                                                 *)
(***************************************************************************)
\* injectJsonLd(data, id); uid is the identity of the script it creates,
\* which is what the returned cleanup closure captures.
injectJsonLdNoReplace(doc, data, id, uid) ==
  [doc EXCEPT !.head = Append(@, Script(id, LdJsonType, Stringify(data), uid))]

injectJsonLd(doc, data, id, uid) ==
  LET IsIt(e) == HasId(e, id)
  IN [doc EXCEPT !.head =
        Append(IF id # "" THEN RemoveFirst(@, IsIt) ELSE @,
               Script(id, LdJsonType, Stringify(data), uid))]

\* the cleanup closure returned by injectJsonLd: script.remove() on the
\* element it captured; removing a detached element does nothing
\* as cleanupJsonLd, but removes whatever script carries the marker id
cleanupJsonLdById(doc, uid) ==
  LET IsIt(e) == HasId(e, JSON_LD_ID)
  IN [doc EXCEPT !.head = RemoveFirst(@, IsIt)]

\* the cleanup closure of injectJsonLd, lines 189-191
cleanupJsonLd(doc, uid) ==
  LET IsIt(e) == e.tag = "script" /\ e.uid = uid
  IN [doc EXCEPT !.head = RemoveFirst(@, IsIt)]

removeJsonLdKeep(doc, id) == doc

removeJsonLd(doc, id) ==
  LET Found(e) == HasId(e, id)
  IN [doc EXCEPT !.head =
        CHOOSE r \in
          { IF First(h, Found) # 0 /\ h[First(h, Found)].type = LdJsonType
            THEN RemoveAt(h, First(h, Found)) ELSE h : h \in {@} } : TRUE]

(***************************************************************************)
(* The reconciliation body, once per call site.  props is a record whose   *)
(* domain is the set of fields the caller supplied.                        *)
(***************************************************************************)
\* a || b, used where at least one of the two is truthy
Or(props, f, g) == IF Truthy(props, f) THEN props[f] ELSE props[g]

Spread(props, f) == IF f \in DOMAIN props THEN props[f] ELSE <<>>

\* the flat scalar fields of updateSeo after keywords, in source order, each
\* with the name-selected tags it writes
FlatFields ==
  << [f |-> "author",                   tags |-> <<"author">>],
     [f |-> "robots",                   tags |-> <<"robots">>],
     [f |-> "language",                 tags |-> <<"language", "content-language">>],
     [f |-> "viewport",                 tags |-> <<"viewport">>],
     [f |-> "generator",                tags |-> <<"generator">>],
     [f |-> "revisitAfter",             tags |-> <<"revisit-after">>],
     [f |-> "rating",                   tags |-> <<"rating">>],
     [f |-> "distribution",             tags |-> <<"distribution">>],
     [f |-> "copyright",                tags |-> <<"copyright">>],
     [f |-> "themeColor",               tags |-> <<"theme-color">>],
     [f |-> "referrer",                 tags |-> <<"referrer">>],
     [f |-> "formatDetection",          tags |-> <<"format-detection">>],
     [f |-> "mobileWebAppCapable",      tags |-> <<"mobile-web-app-capable">>],
     [f |-> "appleMobileWebAppCapable", tags |-> <<"apple-mobile-web-app-capable">>],
     [f |-> "geoRegion",                tags |-> <<"geo.region">>],
     [f |-> "geoPlacename",             tags |-> <<"geo.placename">>],
     [f |-> "geoPosition",              tags |-> <<"geo.position">>],
     [f |-> "icbm",                     tags |-> <<"ICBM">>] >>

RECURSIVE SetTagsFrom(_, _, _, _)
SetTagsFrom(doc, tags, content, i) ==
  IF i > Len(tags) THEN doc
  ELSE SetTagsFrom(setMetaTag(doc, tags[i], content), tags, content, i + 1)

SetTags(doc, tags, content) == SetTagsFrom(doc, tags, content, 1)

RECURSIVE updateSeo_flat(_, _, _)
\* useSeo.ts lines 100-183, from entry i of FlatFields on
updateSeo_flat(doc, props, i) ==
  IF i > Len(FlatFields) THEN doc
  ELSE updateSeo_flat(IF Truthy(props, FlatFields[i].f)
                      THEN SetTags(doc, FlatFields[i].tags, props[FlatFields[i].f])
                      ELSE doc,
                      props, i + 1)

\* as updateSeo_basic, but an omitted canonical removes the link
updateSeo_basicResets(doc, props) ==
  LET d1 == IF Truthy(props, "title") THEN setTitle(doc, props.title) ELSE doc
      d2 == IF Truthy(props, "description") THEN setMetaTag(d1, "description", props.description) ELSE d1
      keywordsStr == formatKeywords(props)
      d3 == IF keywordsStr # Empty THEN setMetaTag(d2, "keywords", keywordsStr) ELSE d2
      d4 == updateSeo_flat(d3, props, 1)
  IN IF Truthy(props, "canonical") THEN setCanonical(d4, props.canonical) ELSE removeCanonical(d4)

\* useSeo.ts lines 84-98 and 185-188
updateSeo_basic(doc, props) ==
  LET d1 == IF Truthy(props, "title") THEN setTitle(doc, props.title) ELSE doc
      d2 == IF Truthy(props, "description") THEN setMetaTag(d1, "description", props.description) ELSE d1
      keywordsStr == formatKeywords(props)
      d3 == IF keywordsStr # Empty THEN setMetaTag(d2, "keywords", keywordsStr) ELSE d2
      d4 == updateSeo_flat(d3, props, 1)
  IN IF Truthy(props, "canonical") THEN setCanonical(d4, props.canonical) ELSE d4

\* as updateSeo_ogData, but url is filled from ogUrl only
updateSeo_ogDataNoFallback(props) ==
  LET o0 == Spread(props, "openGraph")
      o1 == IF Truthy(props, "ogTitle") \/ Truthy(props, "title")
            THEN ObjSet(o0, "title", Or(props, "ogTitle", "title")) ELSE o0
      o2 == IF Truthy(props, "ogDescription") \/ Truthy(props, "description")
            THEN ObjSet(o1, "description", Or(props, "ogDescription", "description")) ELSE o1
      o3 == IF Truthy(props, "ogType") THEN ObjSet(o2, "type", props.ogType) ELSE o2
      o4 == IF Truthy(props, "ogUrl") THEN ObjSet(o3, "url", props.ogUrl) ELSE o3
      o5 == IF Truthy(props, "ogImage") THEN ObjSet(o4, "image", props.ogImage) ELSE o4
      o6 == IF Truthy(props, "ogSiteName") THEN ObjSet(o5, "siteName", props.ogSiteName) ELSE o5
  IN IF Truthy(props, "ogLocale") THEN ObjSet(o6, "locale", props.ogLocale) ELSE o6

\* useSeo.ts lines 190-215
updateSeo_ogData(props) ==
  LET o0 == Spread(props, "openGraph")
      o1 == IF Truthy(props, "ogTitle") \/ Truthy(props, "title")
            THEN ObjSet(o0, "title", Or(props, "ogTitle", "title")) ELSE o0
      o2 == IF Truthy(props, "ogDescription") \/ Truthy(props, "description")
            THEN ObjSet(o1, "description", Or(props, "ogDescription", "description")) ELSE o1
      o3 == IF Truthy(props, "ogType") THEN ObjSet(o2, "type", props.ogType) ELSE o2
      o4 == IF Truthy(props, "ogUrl") \/ Truthy(props, "canonical")
            THEN ObjSet(o3, "url", Or(props, "ogUrl", "canonical")) ELSE o3
      o5 == IF Truthy(props, "ogImage") THEN ObjSet(o4, "image", props.ogImage) ELSE o4
      o6 == IF Truthy(props, "ogSiteName") THEN ObjSet(o5, "siteName", props.ogSiteName) ELSE o5
  IN IF Truthy(props, "ogLocale") THEN ObjSet(o6, "locale", props.ogLocale) ELSE o6

\* useSeo.ts lines 221-246
updateSeo_twitterData(props) ==
  LET t0 == Spread(props, "twitter")
      t1 == IF Truthy(props, "twitterCard") THEN ObjSet(t0, "card", props.twitterCard) ELSE t0
      t2 == IF Truthy(props, "twitterSite") THEN ObjSet(t1, "site", props.twitterSite) ELSE t1
      t3 == IF Truthy(props, "twitterCreator") THEN ObjSet(t2, "creator", props.twitterCreator) ELSE t2
      t4 == IF Truthy(props, "twitterTitle") \/ Truthy(props, "title")
            THEN ObjSet(t3, "title", Or(props, "twitterTitle", "title")) ELSE t3
      t5 == IF Truthy(props, "twitterDescription") \/ Truthy(props, "description")
            THEN ObjSet(t4, "description", Or(props, "twitterDescription", "description")) ELSE t4
      t6 == IF Truthy(props, "twitterImage") \/ Truthy(props, "ogImage")
            THEN ObjSet(t5, "image", Or(props, "twitterImage", "ogImage")) ELSE t5
  IN IF Truthy(props, "twitterImageAlt") THEN ObjSet(t6, "imageAlt", props.twitterImageAlt) ELSE t6

\* the callback of useSeo().updateSeo; uid is the identity the script element
\* gets if one is created
updateSeo(doc, props, uid) ==
  CHOOSE r \in
    { LET d1 == updateSeo_basic(doc, props)
          d2 == IF Len(ogData) > 0 THEN setOpenGraphTags(d1, ogData) ELSE d1
          d3 == IF Len(twitterData) > 0 THEN setTwitterCardTags(d2, twitterData) ELSE d2
          d4 == IF "customMeta" \in DOMAIN props THEN setCustomMetaTags(d3, props.customMeta) ELSE d3
      IN IF "jsonLd" \in DOMAIN props THEN injectJsonLd(d4, props.jsonLd, JSON_LD_ID, uid) ELSE d4
      : ogData \in {updateSeo_ogData(props)}, twitterData \in {updateSeo_twitterData(props)} } : TRUE

\* the callback of useSeo().clearSeo
clearSeo(doc) == removeJsonLd(removeCanonical(doc), JSON_LD_ID)

\* Seo.tsx effect, lines 71-90 of the effect body
Seo_basic(doc, props) ==
  LET d1 == IF Truthy(props, "title") THEN setTitle(doc, props.title) ELSE doc
      d2 == IF Truthy(props, "description") THEN setMetaTag(d1, "description", props.description) ELSE d1
      keywordsStr == formatKeywords(props)
      d3 == IF keywordsStr # Empty THEN setMetaTag(d2, "keywords", keywordsStr) ELSE d2
  IN IF Truthy(props, "canonical") THEN setCanonical(d3, props.canonical) ELSE d3

Seo_ogData(props) ==
  LET o0 == Spread(props, "openGraph")
      o1 == IF Truthy(props, "ogTitle") \/ Truthy(props, "title")
            THEN ObjSet(o0, "title", Or(props, "ogTitle", "title")) ELSE o0
      o2 == IF Truthy(props, "ogDescription") \/ Truthy(props, "description")
            THEN ObjSet(o1, "description", Or(props, "ogDescription", "description")) ELSE o1
      o3 == IF Truthy(props, "ogType") THEN ObjSet(o2, "type", props.ogType) ELSE o2
      o4 == IF Truthy(props, "ogUrl") \/ Truthy(props, "canonical")
            THEN ObjSet(o3, "url", Or(props, "ogUrl", "canonical")) ELSE o3
      o5 == IF Truthy(props, "ogImage") THEN ObjSet(o4, "image", props.ogImage) ELSE o4
      o6 == IF Truthy(props, "ogSiteName") THEN ObjSet(o5, "siteName", props.ogSiteName) ELSE o5
  IN IF Truthy(props, "ogLocale") THEN ObjSet(o6, "locale", props.ogLocale) ELSE o6

Seo_twitterData(props) ==
  LET t0 == Spread(props, "twitter")
      t1 == IF Truthy(props, "twitterCard") THEN ObjSet(t0, "card", props.twitterCard) ELSE t0
      t2 == IF Truthy(props, "twitterSite") THEN ObjSet(t1, "site", props.twitterSite) ELSE t1
      t3 == IF Truthy(props, "twitterCreator") THEN ObjSet(t2, "creator", props.twitterCreator) ELSE t2
      t4 == IF Truthy(props, "twitterTitle") \/ Truthy(props, "title")
            THEN ObjSet(t3, "title", Or(props, "twitterTitle", "title")) ELSE t3
      t5 == IF Truthy(props, "twitterDescription") \/ Truthy(props, "description")
            THEN ObjSet(t4, "description", Or(props, "twitterDescription", "description")) ELSE t4
      t6 == IF Truthy(props, "twitterImage") \/ Truthy(props, "ogImage")
            THEN ObjSet(t5, "image", Or(props, "twitterImage", "ogImage")) ELSE t5
  IN IF Truthy(props, "twitterImageAlt") THEN ObjSet(t6, "imageAlt", props.twitterImageAlt) ELSE t6

\* the effect of the Seo component: the document it leaves; the cleanup it
\* registers captures uid when props has a jsonLd, and nothing otherwise
Seo(doc, props, uid) ==
  CHOOSE r \in
    { LET d1 == Seo_basic(doc, props)
          d2 == IF Len(ogData) > 0 THEN setOpenGraphTags(d1, ogData) ELSE d1
          d3 == IF Len(twitterData) > 0 THEN setTwitterCardTags(d2, twitterData) ELSE d2
          d4 == IF "customMeta" \in DOMAIN props THEN setCustomMetaTags(d3, props.customMeta) ELSE d3
      IN IF "jsonLd" \in DOMAIN props THEN injectJsonLd(d4, props.jsonLd, JSON_LD_ID, uid) ELSE d4
      : ogData \in {Seo_ogData(props)}, twitterData \in {Seo_twitterData(props)} } : TRUE

(***************************************************************************)
(* Inputs                                                                  *)
(***************************************************************************)
tA == <<"A">>

tB == <<"B">>

tU == <<"u">>

tV == <<"v">>

tImg == <<"i">>

tUtf8 == <<"u", "t", "f", "8">>

tLatin == <<"l", "1">>

Obj1(k1, v1) == << [k |-> k1, v |-> v1] >>

Obj2(k1, v1, k2, v2) == << [k |-> k1, v |-> v1], [k |-> k2, v |-> v2] >>

KwArray(a) == [kind |-> "array", val |-> a]

KwString(s) == [kind |-> "string", val |-> s]

LdType == <<"@", "t", "y", "p", "e">>

LdObject(t) == [kind |-> "object", val |-> Obj1(LdType, t)]

LdArray(t1, t2) == [kind |-> "array", val |-> <<Obj1(LdType, t1), Obj1(LdType, t2)>>]

\* the metadata records the callers pass
Records ==
  { [title |-> tA],
    [title |-> tA, openGraph |-> Obj1("title", tB)],
    [title |-> tB, description |-> tA, ogTitle |-> tA, twitter |-> Obj1("twitter:label1", tV)],
    [description |-> tB, openGraph |-> Obj2("description", tA, "og:article:author", tV),
     jsonLd |-> LdObject(tA)],
    [title |-> Empty, keywords |-> KwArray(<<tA, tB, tU>>), jsonLd |-> LdObject(tB)],
    [keywords |-> KwString(<<"a", ",", "b">>), robots |-> tA, language |-> tB],
    [keywords |-> KwArray(<<>>), author |-> tA,
     customMeta |-> << [name |-> "keywords", content |-> tV] >>],
    [canonical |-> tU],
    [canonical |-> tV, ogUrl |-> tU, ogImage |-> tImg],
    [canonical |-> tU, customMeta |-> << [property |-> "og:url", httpEquiv |-> "x-ua", content |-> tV],
                                         [httpEquiv |-> "refresh", charset |-> tUtf8, content |-> tA] >>],
    [customMeta |-> << [charset |-> tUtf8, content |-> tA], [charset |-> tLatin, content |-> tB],
                       [name |-> "x", property |-> "og:title", content |-> tA] >>],
    [customMeta |-> << [charset |-> tLatin], [name |-> "x", content |-> Empty],
                       [name |-> "description", content |-> tV] >>,
     jsonLd |-> LdArray(tA, tB)],
    [twitterImage |-> tV, ogImage |-> tImg, twitterCard |-> tA, openGraph |-> Obj1("image", tU),
     twitter |-> Obj1("card", tB)],
    [openGraph |-> Obj2("image", tImg, "url", tV), canonical |-> tU,
     twitter |-> Obj2("title", tB, "card", tA), title |-> tA] }

\* the Seo components of the tree
Comps == {"c1", "c2"}

\* documents the library can be loaded into: an empty head, and a static
\* head that already holds tags of every kind and a foreign script that
\* happens to carry the marker id
InitDocs ==
  { [title |-> Empty, head |-> <<>>],
    [title |-> tB,
     head |-> << Meta("charset", "", tLatin), Meta("name", "description", tU),
                 Link(tV), Meta("property", "og:title", tU),
                 Meta("http-equiv", "refresh", tU),
                 Script(JSON_LD_ID, "text/javascript", tV, 1),
                 Meta("name", "keywords", tU) >>] }

(***************************************************************************)
(* State machine                                                           *)
(***************************************************************************)
Doc == [title |-> docTitle, head |-> head]

\* identities of script elements that are in the head or captured by the
\* cleanup of a live effect; any other identity is garbage and can be reused
UsedUids ==
  {head[i].uid : i \in 1..Len(head)} \cup {comps[c].cleanup : c \in Comps}

FreshUid == CHOOSE n \in 1..(Cardinality(Comps) + 2) :
              n \notin UsedUids /\ \A m \in 1..(n-1) : m \in UsedUids

\* history of the last call: what was called, with what, on which document,
\* and the identity of the script it created or disposed of (0 if none)
NoOp ==
  [op |-> "init", props |-> <<>>, comp |-> "", uid |-> 0,
   before |-> [title |-> Empty, head |-> <<>>]]

Init ==
  /\ \E d \in InitDocs : docTitle = d.title /\ head = d.head
  /\ comps = [c \in Comps |-> [active |-> FALSE, cleanup |-> 0]]
  /\ last = NoOp
  /\ steps = 0

\* a caller invokes useSeo().updateSeo(props)
UpdateSeo(props) ==
  /\ steps < MaxSteps
  /\ \E d \in {updateSeo(Doc, props, FreshUid)} :
        docTitle' = d.title /\ head' = d.head
  /\ last' = [op |-> "updateSeo", props |-> props, comp |-> "", before |-> Doc,
              uid |-> IF "jsonLd" \in DOMAIN props THEN FreshUid ELSE 0]
  /\ steps' = steps + 1
  /\ UNCHANGED comps

\* a caller invokes useSeo().clearSeo()
ClearSeo ==
  /\ steps < MaxSteps
  /\ \E d \in {clearSeo(Doc)} :
        docTitle' = d.title /\ head' = d.head
  /\ last' = [op |-> "clearSeo", props |-> <<>>, comp |-> "", before |-> Doc, uid |-> 0]
  /\ steps' = steps + 1
  /\ UNCHANGED comps

\* the effect of Seo component c runs with props (mount, or a change of
\* props after the previous effect's cleanup has run)
SeoEffect(c, props) ==
  /\ steps < MaxSteps
  /\ ~comps[c].active
  /\ \E d \in {Seo(Doc, props, FreshUid)} :
        docTitle' = d.title /\ head' = d.head
  /\ comps' = [comps EXCEPT ![c] =
                 [active |-> TRUE,
                  cleanup |-> IF "jsonLd" \in DOMAIN props THEN FreshUid ELSE 0]]
  /\ last' = [op |-> "Seo", props |-> props, comp |-> c, before |-> Doc,
              uid |-> IF "jsonLd" \in DOMAIN props THEN FreshUid ELSE 0]
  /\ steps' = steps + 1

\* the cleanup function the effect of c returned runs (unmount, or before
\* the effect runs again); it runs once per effect run, so it needs no bound
SeoCleanup(c) ==
  /\ comps[c].active
  /\ \E d \in {IF comps[c].cleanup # 0 THEN cleanupJsonLd(Doc, comps[c].cleanup) ELSE Doc} :
        docTitle' = d.title /\ head' = d.head
  /\ comps' = [comps EXCEPT ![c] = [active |-> FALSE, cleanup |-> 0]]
  /\ last' = [op |-> "cleanup", props |-> <<>>, comp |-> c, before |-> Doc,
              uid |-> comps[c].cleanup]
  /\ UNCHANGED steps

Next ==
  \/ \E props \in Records : UpdateSeo(props)
  \/ ClearSeo
  \/ \E c \in Comps, props \in Records : SeoEffect(c, props)
  \/ \E c \in Comps : SeoCleanup(c)

Spec == Init /\ [][Next]_vars

(***************************************************************************)
(* The same program loaded into a page whose static head already holds     *)
(* canonical links: two of them, or one behind another element.            *)
(***************************************************************************)
StaticCanonicalDocs ==
  { [title |-> tB,
     head |-> << Link(tV), Meta("name", "description", tU), Link(tA) >>],
    [title |-> tB,
     head |-> << Meta("name", "description", tU), Link(tV) >>] }

InitStaticCanonical ==
  /\ \E d \in StaticCanonicalDocs : docTitle = d.title /\ head = d.head
  /\ comps = [c \in Comps |-> [active |-> FALSE, cleanup |-> 0]]
  /\ last = NoOp
  /\ steps = 0

SpecStaticCanonical == InitStaticCanonical /\ [][Next]_vars

(***************************************************************************)
(* Vocabulary of the properties                                            *)
(***************************************************************************)
Reconciled == last.op \in {"updateSeo", "Seo"}

NoElement == <<"no element">>

\* content of the element a selector finds, NoElement if it finds none
MetaContent(h, attr, key) ==
  LET i == First(h, LAMBDA e : IsMeta(e, attr, key))
  IN IF i = 0 THEN NoElement ELSE h[i].content

CanonicalHref(h) ==
  LET i == First(h, IsCanonical)
  IN IF i = 0 THEN NoElement ELSE h[i].content

Count(h, Match(_)) == Cardinality({i \in 1..Len(h) : Match(h[i])})

IsMarked(e) == HasId(e, JSON_LD_ID)

IsJsonLdScript(e) == e.tag = "script" /\ IsMarked(e) /\ e.type = LdJsonType

\* the head state an observer sees: element identities are not part of it
View(doc) == [title |-> doc.title, head |-> [i \in 1..Len(doc.head) |-> [doc.head[i] EXCEPT !.uid = 0]]]

CustomOf(props) == IF "customMeta" \in DOMAIN props THEN props.customMeta ELSE <<>>

\* some custom-tag entry of props with content writes the element (f, key)
CustomAddresses(props, f, key) ==
  \E i \in 1..Len(CustomOf(props)) :
     LET m == CustomOf(props)[i]
     IN /\ TextTruthy(m, "content")
        /\ KeyTruthy(m, f) /\ m[f] = key
        /\ (f = "property" => ~KeyTruthy(m, "name"))

(***************************************************************************)
(* C1  Open-Graph title precedence: after a reconcile (either call site),  *)
(* a non-empty title or description in the openGraph / twitter override    *)
(* record is the content of og:title / og:description (twitter:title /     *)
(* twitter:description), whatever the top-level title / description is;    *)
(* with no override and no ogTitle, og:title is the top-level title.       *)
(* The code lets the flat field overwrite the override, so this fails.     *)
(***************************************************************************)
C1_OverrideWins ==
  Reconciled =>
    LET og == Spread(last.props, "openGraph")
        tw == Spread(last.props, "twitter")
    IN /\ ObjTruthy(og, "title") /\ ~CustomAddresses(last.props, "property", "og:title")
            => MetaContent(head, "property", "og:title") = ObjGet(og, "title")
       /\ ObjTruthy(og, "description") /\ ~CustomAddresses(last.props, "property", "og:description")
            => MetaContent(head, "property", "og:description") = ObjGet(og, "description")
       /\ ObjTruthy(tw, "title") /\ ~CustomAddresses(last.props, "name", "twitter:title")
            => MetaContent(head, "name", "twitter:title") = ObjGet(tw, "title")
       /\ ObjTruthy(tw, "description") /\ ~CustomAddresses(last.props, "name", "twitter:description")
            => MetaContent(head, "name", "twitter:description") = ObjGet(tw, "description")
       /\ last.props = [title |-> tA]
            => MetaContent(head, "property", "og:title") = tA

(***************************************************************************)
(* C2  Idempotence: in the state a reconcile of r leaves, reconciling r    *)
(* again (by updateSeo, by the effect of another Seo component, or by the  *)
(* same component's cleanup followed by its effect) leaves the same title  *)
(* and the same sequence of head elements with the same attributes.        *)
(***************************************************************************)
C2_Idempotent ==
  /\ last.op = "updateSeo" => View(updateSeo(Doc, last.props, FreshUid)) = View(Doc)
  /\ last.op = "Seo" =>
       /\ View(Seo(Doc, last.props, FreshUid)) = View(Doc)
       /\ View(Seo(IF last.uid # 0 THEN cleanupJsonLd(Doc, last.uid) ELSE Doc,
                   last.props, FreshUid)) = View(Doc)

\* a reconcile of a record with custom tags and a JSON-LD payload that
\* changed the document
C2_Witness ==
  /\ Reconciled
  /\ {"customMeta", "jsonLd"} \subseteq DOMAIN last.props
  /\ View(last.before) # View(Doc)

(***************************************************************************)
(* C3  No duplication: in every reachable state (any sequence of           *)
(* reconciles, clears and cleanups from a head without duplicates), no two *)
(* head elements answer the same selector key: meta name=X, meta           *)
(* property=X, meta http-equiv=X, meta charset, link rel=canonical.        *)
(***************************************************************************)
SameSelector(e, f) ==
  \/ e.tag = "meta" /\ f.tag = "meta" /\ e.attr = f.attr /\ (e.attr = "charset" \/ e.key = f.key)
  \/ IsCanonical(e) /\ IsCanonical(f)

C3_NoDuplicates ==
  \A i, j \in 1..Len(head) : i # j => ~SameSelector(head[i], head[j])

\* a second reconcile that found elements of all five selector kinds and a
\* name-selected one whose content it had to change
C3_Witness ==
  /\ Reconciled /\ steps = MaxSteps
  /\ \A a \in {"name", "property", "http-equiv", "charset"} :
        \E i \in 1..Len(head) : head[i].tag = "meta" /\ head[i].attr = a
  /\ \E i \in 1..Len(head) : IsCanonical(head[i])
  /\ \E i \in 1..Len(last.before.head) :
        LET e == last.before.head[i]
        IN /\ e.tag = "meta" /\ e.attr = "name"
           /\ MetaContent(head, "name", e.key) \notin {e.content, NoElement}

(***************************************************************************)
(* C4  JSON-LD replace-on-reconcile: in every reachable state at most one  *)
(* element carries the marker id; right after a reconcile whose record has *)
(* a JSON-LD payload p exactly one does, it is a script of type            *)
(* application/ld+json and its text is JSON.stringify(p); in particular    *)
(* the payload {"@type":"B"} leaves the text {"@type":"B"}.                *)
(***************************************************************************)
TextTypeB ==
  <<"{", "\"", "@", "t", "y", "p", "e", "\"", ":", "\"", "B", "\"", "}">>

C4_JsonLdReplaced ==
  /\ Count(head, IsMarked) <= 1
  /\ Reconciled /\ "jsonLd" \in DOMAIN last.props =>
       /\ Count(head, IsMarked) = 1
       /\ \E i \in 1..Len(head) :
            /\ IsJsonLdScript(head[i])
            /\ head[i].content = Stringify(last.props.jsonLd)
            /\ last.props.jsonLd = LdObject(tB) => head[i].content = TextTypeB

\* {"@type":"B"} reconciled over a script an earlier reconcile created
C4_Witness ==
  /\ Reconciled /\ "jsonLd" \in DOMAIN last.props /\ last.props.jsonLd = LdObject(tB)
  /\ \E i \in 1..Len(last.before.head) :
        /\ IsJsonLdScript(last.before.head[i])
        /\ last.before.head[i].content = Stringify(LdObject(tA))

(***************************************************************************)
(* C5  Clear scope: right after clearSeo the head holds no link            *)
(* rel=canonical and no application/ld+json script with the marker id,     *)
(* and the title and every other head element (name-, property-,           *)
(* http-equiv- and charset-selected metas) are as before, in order.        *)
(***************************************************************************)
Unmanaged(e) == ~IsCanonical(e) /\ ~IsJsonLdScript(e)

C5_ClearScope ==
  last.op = "clearSeo" =>
    /\ Count(head, IsCanonical) = 0
    /\ Count(head, IsJsonLdScript) = 0
    /\ docTitle = last.before.title
    /\ SelectSeq(head, Unmanaged) = SelectSeq(last.before.head, Unmanaged)

\* a clear that removed both a canonical link and a JSON-LD script and left
\* a title, a description and an Open-Graph tag behind
C5_Witness ==
  /\ last.op = "clearSeo"
  /\ Count(last.before.head, IsCanonical) = 1
  /\ Count(last.before.head, IsJsonLdScript) = 1
  /\ docTitle # Empty
  /\ MetaContent(head, "name", "description") # NoElement
  /\ \E i \in 1..Len(head) : head[i].tag = "meta" /\ head[i].attr = "property"

(***************************************************************************)
(* C6  No implicit reset, last write wins.  What a record targets, and the *)
(* value it derives for each target, is what updateSeo makes of it on an   *)
(* empty document.  Original statement: right after updateSeo(r2) every    *)
(* element r2 targets holds r2's value, and the title and every element r2 *)
(* does not target are as they were before the call, in order.             *)
(***************************************************************************)
OnEmpty(props) == updateSeo([title |-> Empty, head |-> <<>>], props, 1)

\* the selector key an element answers to
Sel(e) == IF IsCharset(e) THEN <<"meta", "charset", "">> ELSE <<e.tag, e.attr, e.key>>

\* the selector keys of the elements of a head
Sels(h) == {Sel(h[i]) : i \in 1..Len(h)}

\* [content, type] of the first element answering a selector key
ValueAt(h, sel) ==
  LET i == First(h, LAMBDA e : Sel(e) = sel)
  IN IF i = 0 THEN <<NoElement, "">> ELSE <<h[i].content, h[i].type>>

\* the elements of h that answer none of the selector keys
Outside(h, targets) == SelectSeq(h, LAMBDA e : Sel(e) \notin targets)

C6_LastWriteWins ==
  last.op = "updateSeo" =>
    \A derived \in {OnEmpty(last.props).head} : \A targets \in {Sels(derived)} :
      /\ docTitle = IF Truthy(last.props, "title") THEN last.props.title ELSE last.before.title
      /\ \A sel \in targets : ValueAt(head, sel) = ValueAt(derived, sel)
      /\ Outside(head, targets) = Outside(last.before.head, targets)

(***************************************************************************)
(* C6 amended: as above, except that a charset custom tag never changes a  *)
(* charset meta that was already in the head: that element keeps the value *)
(* it had before the call.                                                 *)
(***************************************************************************)
CharsetSel == <<"meta", "charset", "">>

HadCharset == First(last.before.head, IsCharset) # 0

C6_LastWriteWinsButCharset ==
  last.op = "updateSeo" =>
    \A derived \in {OnEmpty(last.props).head} : \A targets \in {Sels(derived)} :
      /\ docTitle = IF Truthy(last.props, "title") THEN last.props.title ELSE last.before.title
      /\ \A sel \in targets :
            IF sel = CharsetSel /\ HadCharset
            THEN ValueAt(head, sel) = ValueAt(last.before.head, sel)
            ELSE ValueAt(head, sel) = ValueAt(derived, sel)
      /\ Outside(head, targets) = Outside(last.before.head, targets)

\* the second of two updateSeo calls: the first record set keywords and
\* robots, the second sets other keywords and omits robots
C6_Witness ==
  /\ last.op = "updateSeo" /\ steps = 2
  /\ MetaContent(last.before.head, "name", "keywords") = <<"a", ",", "b">>
  /\ MetaContent(head, "name", "keywords") = <<"A", ",", " ", "B", ",", " ", "u">>
  /\ "robots" \notin DOMAIN last.props
  /\ MetaContent(head, "name", "robots") = tA

(***************************************************************************)
(* C7  Disposer ownership: right after the cleanup of a Seo effect that    *)
(* injected a script, the head is the head before it without that very     *)
(* script element (so a script a later reconcile put in its place stays),  *)
(* the title is unchanged, and running the disposer again changes nothing; *)
(* the cleanup of an effect that injected nothing changes nothing.         *)
(***************************************************************************)
IsElement(e, uid) == e.tag = "script" /\ e.uid = uid

C7_DisposerOwnsItsScript ==
  last.op = "cleanup" =>
    /\ docTitle = last.before.title
    /\ IF last.uid = 0 THEN head = last.before.head
       ELSE /\ head = SelectSeq(last.before.head, LAMBDA e : ~IsElement(e, last.uid))
            /\ Count(head, LAMBDA e : IsElement(e, last.uid)) = 0
            /\ cleanupJsonLd(Doc, last.uid) = Doc

\* a stale disposer ran: the script of a later reconcile is still there
C7_Witness ==
  /\ last.op = "cleanup" /\ last.uid # 0
  /\ Count(last.before.head, LAMBDA e : IsElement(e, last.uid)) = 0
  /\ Count(head, IsJsonLdScript) = 1

\* a teardown removed the script its own effect had created
C7_WitnessTeardown ==
  /\ last.op = "cleanup" /\ last.uid # 0
  /\ Count(last.before.head, LAMBDA e : IsElement(e, last.uid)) = 1
  /\ Count(head, IsMarked) = 0

(***************************************************************************)
(* C8  Call-site equivalence: an effect run of Seo with r leaves the head  *)
(* state updateSeo(r) leaves from the same document.  The Seo effect does  *)
(* not read the flat fields author ... icbm, so this fails.                *)
(***************************************************************************)
C8_CallSitesAgree ==
  last.op = "Seo" => View(Doc) = View(updateSeo(last.before, last.props, 1))

(***************************************************************************)
(* C9  Keyword formatting: after a reconcile of a record whose custom tags *)
(* do not themselves write the keywords meta, that meta holds the elements *)
(* joined with ", " when keywords is a sequence, the string itself when it *)
(* is a string, and is as it was before (absent if it was absent) when     *)
(* keywords is absent or formats to the empty string.                      *)
(***************************************************************************)
JoinedWithCommaSpace(arr) == Join(arr, <<",", " ">>)

KeywordsText(props) ==
  IF "keywords" \notin DOMAIN props THEN Empty
  ELSE IF props.keywords.kind = "array" THEN JoinedWithCommaSpace(props.keywords.val)
  ELSE props.keywords.val

C9_KeywordFormatting ==
  Reconciled /\ ~CustomAddresses(last.props, "name", "keywords") =>
    /\ MetaContent(head, "name", "keywords") =
         IF KeywordsText(last.props) # Empty THEN KeywordsText(last.props)
         ELSE MetaContent(last.before.head, "name", "keywords")
    /\ ("keywords" \in DOMAIN last.props /\ last.props.keywords = KwArray(<<tA, tB, tU>>))
         => MetaContent(head, "name", "keywords") = <<"A", ",", " ", "B", ",", " ", "u">>
    /\ ("keywords" \in DOMAIN last.props /\ last.props.keywords = KwString(<<"a", ",", "b">>))
         => MetaContent(head, "name", "keywords") = <<"a", ",", "b">>

\* a three-element sequence written over an older keywords meta
C9_Witness ==
  /\ Reconciled /\ "keywords" \in DOMAIN last.props
  /\ last.props.keywords = KwArray(<<tA, tB, tU>>)
  /\ MetaContent(last.before.head, "name", "keywords") = tU
  /\ MetaContent(head, "name", "keywords") = <<"A", ",", " ", "B", ",", " ", "u">>

(***************************************************************************)
(* C10  Canonical to og:url fallback: after a reconcile of a record with a *)
(* non-empty canonical u whose custom tags do not themselves write og:url, *)
(* link rel=canonical has href u, and og:url has content u when the record *)
(* has neither ogUrl nor openGraph.url; when ogUrl is given, og:url is     *)
(* ogUrl.                                                                  *)
(***************************************************************************)
C10_CanonicalFallback ==
  Reconciled /\ ~CustomAddresses(last.props, "property", "og:url") =>
    /\ Truthy(last.props, "canonical") =>
         /\ CanonicalHref(head) = last.props.canonical
         /\ ("ogUrl" \notin DOMAIN last.props /\ ~ObjHas(Spread(last.props, "openGraph"), "url"))
              => MetaContent(head, "property", "og:url") = last.props.canonical
    /\ Truthy(last.props, "ogUrl") =>
         MetaContent(head, "property", "og:url") = last.props.ogUrl

\* {canonical: u} alone, reconciled over a head whose og:url said v
C10_Witness ==
  /\ Reconciled /\ last.props = [canonical |-> tU]
  /\ MetaContent(last.before.head, "property", "og:url") = tV
  /\ MetaContent(head, "property", "og:url") = tU
  /\ CanonicalHref(head) = tU

(***************************************************************************)
(* C11  Custom tag addressing priority.  The mode of an entry is the first *)
(* of name, property, httpEquiv, charset it supplies.  Applied to the      *)
(* document a reconcile started from, an entry with content changes only   *)
(* the element its mode selects, and for the first three modes that        *)
(* element then holds the entry's content.  Right after the reconcile, the *)
(* element of the mode holds the content of the last entry resolving to    *)
(* it, and the element selected by any lower-priority field of the entry   *)
(* (the property of an entry that also has a name) is as it was before the *)
(* call, absent if it was absent, unless the rest of the record writes it. *)
(***************************************************************************)
Mode(m) ==
  IF KeyTruthy(m, "name") THEN "name"
  ELSE IF KeyTruthy(m, "property") THEN "property"
  ELSE IF KeyTruthy(m, "httpEquiv") THEN "http-equiv"
  ELSE IF TextTruthy(m, "charset") THEN "charset"
  ELSE "none"

FieldSel(m, f) ==
  IF f = "name" THEN <<"meta", "name", m.name>>
  ELSE IF f = "property" THEN <<"meta", "property", m.property>>
  ELSE IF f = "http-equiv" THEN <<"meta", "http-equiv", m.httpEquiv>>
  ELSE IF f = "charset" THEN <<"meta", "charset", "">>
  ELSE <<"none", "", "">>

EntrySel(m) == FieldSel(m, Mode(m))

\* the selectors of the addressing fields an entry supplies but does not use
LowerSels(m) ==
  ( (IF KeyTruthy(m, "name") THEN {FieldSel(m, "name")} ELSE {})
    \cup (IF KeyTruthy(m, "property") THEN {FieldSel(m, "property")} ELSE {})
    \cup (IF KeyTruthy(m, "httpEquiv") THEN {FieldSel(m, "http-equiv")} ELSE {})
    \cup (IF TextTruthy(m, "charset") THEN {FieldSel(m, "charset")} ELSE {}) )
  \ {EntrySel(m)}

\* the selectors the record writes when its custom-tag entry i is left out
TargetsWithout(props, i) ==
  Sels(OnEmpty([props EXCEPT !.customMeta = RemoveAt(@, i)]).head)

\* no entry after i resolves to the selector of entry i
LastForItsSel(custom, i) ==
  \A j \in (i+1)..Len(custom) :
     TextTruthy(custom[j], "content") => EntrySel(custom[j]) # EntrySel(custom[i])

C11_AddressingPriority ==
  Reconciled =>
    \A custom \in {CustomOf(last.props)} : \A i \in 1..Len(custom) : \A m \in {custom[i]} :
      TextTruthy(m, "content") =>
        /\ \A after \in {CustomEntry(last.before, m).head} :
             /\ Mode(m) \in {"name", "property", "http-equiv"}
                  => ValueAt(after, EntrySel(m)) = <<m.content, "">>
             /\ Outside(after, {EntrySel(m)}) = Outside(last.before.head, {EntrySel(m)})
        /\ (Mode(m) \in {"name", "property", "http-equiv"} /\ LastForItsSel(custom, i))
             => ValueAt(head, EntrySel(m)) = <<m.content, "">>
        /\ \A others \in {TargetsWithout(last.props, i)} :
             \A sel \in LowerSels(m) \ others :
                ValueAt(head, sel) = ValueAt(last.before.head, sel)

\* an entry with name "x" and property "og:title" reconciled over a head
\* whose og:title said u: x is created, og:title still says u
C11_Witness ==
  /\ Reconciled
  /\ \E i \in 1..Len(CustomOf(last.props)) :
        CustomOf(last.props)[i] = [name |-> "x", property |-> "og:title", content |-> tA]
  /\ MetaContent(last.before.head, "property", "og:title") = tU
  /\ MetaContent(last.before.head, "name", "x") = NoElement
  /\ MetaContent(head, "property", "og:title") = tU
  /\ MetaContent(head, "name", "x") = tA

\* the same entry reconciled over an empty head: no og:title is created; and
\* an entry with httpEquiv and charset that created no charset meta
C11_WitnessCreate ==
  /\ Reconciled /\ last.before.head = <<>>
  /\ \/ /\ MetaContent(head, "name", "x") = tA
        /\ MetaContent(head, "property", "og:title") = NoElement
     \/ /\ MetaContent(head, "http-equiv", "refresh") = tA
        /\ Count(head, IsCharset) = 0

(***************************************************************************)
(* C12  Charset single-instance.  In every reachable state the head holds  *)
(* at most one charset meta, and if it holds one it is the first child.    *)
(* No call changes a charset meta that was in the head before it.  Right   *)
(* after a reconcile over a head without one, the head has a charset meta  *)
(* exactly when the record has a custom-tag entry in charset mode with     *)
(* content, and then it is the first child and carries the charset value   *)
(* of the first such entry; entries without content create nothing.        *)
(***************************************************************************)
\* the indices of the entries with content that resolve to charset
CharsetEntries(custom) ==
  {i \in 1..Len(custom) : TextTruthy(custom[i], "content") /\ Mode(custom[i]) = "charset"}

Least(S) == CHOOSE i \in S : \A j \in S : i <= j

C12_CharsetSingleInstance ==
  /\ Count(head, IsCharset) <= 1
  /\ Count(head, IsCharset) = 1 => IsCharset(head[1])
  /\ (last.op # "init" /\ HadCharset)
       => ValueAt(head, CharsetSel) = ValueAt(last.before.head, CharsetSel)
  /\ (Reconciled /\ ~HadCharset) =>
       \A custom \in {CustomOf(last.props)} : \A entries \in {CharsetEntries(custom)} :
          IF entries = {} THEN Count(head, IsCharset) = 0
          ELSE head[1] = Meta("charset", "", custom[Least(entries)].charset)

\* two charset entries, utf8 then l1, reconciled over a head that had other
\* elements and no charset meta: one charset meta, utf8, in front of them
C12_Witness ==
  /\ Reconciled /\ ~HadCharset /\ Len(last.before.head) > 0
  /\ Cardinality(CharsetEntries(CustomOf(last.props))) = 2
  /\ head[1] = Meta("charset", "", tUtf8)
  /\ Count(head, IsCharset) = 1
  /\ Len(head) > Len(last.before.head) + 1

\* a later reconcile of the same two entries found the charset meta the
\* first one created and left it alone
C12_WitnessAgain ==
  /\ Reconciled /\ HadCharset
  /\ last.before.head[1] = Meta("charset", "", tUtf8)
  /\ Cardinality(CharsetEntries(CustomOf(last.props))) = 2
  /\ head[1] = Meta("charset", "", tUtf8)
  /\ Count(head, IsCharset) = 1

\* a charset entry without content reconciled over a head without a
\* charset meta created none
C12_WitnessSkipped ==
  /\ Reconciled /\ ~HadCharset
  /\ \E i \in 1..Len(CustomOf(last.props)) : CustomOf(last.props)[i] = [charset |-> tLatin]
  /\ Count(head, IsCharset) = 0 /\ Len(head) > 0

(***************************************************************************)
(* C13  Fill only when unset: right after a reconcile (either call site),  *)
(* every well-known key the openGraph / twitter override record sets to a  *)
(* non-empty value is the content of its og:* / twitter:* meta, whether or *)
(* not the flat field for that key is supplied too (custom tags writing    *)
(* the same meta aside).  The code assigns the flat field over the         *)
(* override, so this fails.                                                *)
(***************************************************************************)
C13_FillOnlyWhenUnset ==
  Reconciled =>
    \A og \in {Spread(last.props, "openGraph")}, tw \in {Spread(last.props, "twitter")} :
      /\ \A i \in 1..Len(OgWellKnown) : \A w \in {OgWellKnown[i]} :
            (ObjTruthy(og, w.k) /\ ~CustomAddresses(last.props, "property", w.tag))
               => MetaContent(head, "property", w.tag) = ObjGet(og, w.k)
      /\ \A i \in 1..Len(TwitterWellKnown) : \A w \in {TwitterWellKnown[i]} :
            (ObjTruthy(tw, w.k) /\ ~CustomAddresses(last.props, "name", w.tag))
               => MetaContent(head, "name", w.tag) = ObjGet(tw, w.k)

(***************************************************************************)
(* C14  Twitter image fallback: right after a reconcile (either call site, *)
(* custom tags writing og:image or twitter:image aside), twitter:image is  *)
(* twitterImage when that is given; when neither twitterImage nor          *)
(* twitter.image is given and the record has an Open-Graph image, from the *)
(* flat ogImage or from openGraph.image, twitter:image holds what the      *)
(* reconcile left in og:image.  The code falls back to the flat ogImage    *)
(* only, so this fails for an image given in the override record.          *)
(***************************************************************************)
C14_TwitterImageFallback ==
  (/\ Reconciled
   /\ ~CustomAddresses(last.props, "name", "twitter:image")
   /\ ~CustomAddresses(last.props, "property", "og:image")) =>
    /\ Truthy(last.props, "twitterImage")
         => MetaContent(head, "name", "twitter:image") = last.props.twitterImage
    /\ (/\ ~Truthy(last.props, "twitterImage")
        /\ ~ObjTruthy(Spread(last.props, "twitter"), "image")
        /\ (Truthy(last.props, "ogImage") \/ ObjTruthy(Spread(last.props, "openGraph"), "image")))
         => /\ MetaContent(head, "property", "og:image") # NoElement
            /\ MetaContent(head, "name", "twitter:image") = MetaContent(head, "property", "og:image")

(***************************************************************************)
(* C15  Ownership of the canonical link is not tracked (pages whose static *)
(* head holds canonical links).  A reconcile with a canonical u writes u   *)
(* into the first canonical link there is, where it stands, and adds a     *)
(* link only when there is none; clearSeo removes the first canonical link *)
(* there is, whoever created it, and no other; any other call leaves the   *)
(* canonical links as they are.  So after clearSeo on a head with two      *)
(* canonical links the second is still there.                              *)
(***************************************************************************)
CanonicalLinks(h) == SelectSeq(h, IsCanonical)

\* the selectors of the elements in front of the first canonical link, a
\* charset meta (which is inserted in front of everything) aside
InFrontOfCanonical(h) ==
  LET front == SelectSeq(SubSeq(h, 1, First(h, IsCanonical) - 1), LAMBDA e : ~IsCharset(e))
  IN [i \in 1..Len(front) |-> Sel(front[i])]

C15_CanonicalNotOwned ==
  last.op # "init" =>
    \A was \in {CanonicalLinks(last.before.head)} : \A now \in {CanonicalLinks(head)} :
      IF Reconciled /\ Truthy(last.props, "canonical")
      THEN IF was = <<>>
           THEN now = <<Link(last.props.canonical)>>
           ELSE /\ now = <<Link(last.props.canonical)>> \o Tail(was)
                /\ InFrontOfCanonical(head) = InFrontOfCanonical(last.before.head)
      ELSE IF last.op = "clearSeo"
      THEN now = IF was = <<>> THEN <<>> ELSE Tail(was)
      ELSE now = was

\* clearSeo as the very first call on a static head with two canonical
\* links: the first is gone, the second is still present
C15_Witness ==
  /\ last.op = "clearSeo" /\ steps = 1
  /\ CanonicalLinks(last.before.head) = <<Link(tV), Link(tA)>>
  /\ CanonicalLinks(head) = <<Link(tA)>>

\* a reconcile wrote its canonical into the static link, behind the
\* description meta, and clearSeo then removed that link
C15_WitnessInPlace ==
  /\ last.op = "clearSeo" /\ steps = 2
  /\ Len(last.before.head) >= 2
  /\ last.before.head[2] = Link(tU)
  /\ CanonicalLinks(last.before.head) = <<Link(tU)>>
  /\ CanonicalLinks(head) = <<>>

====
